---- MODULE Spec2Model ----
(***************************************************************************)
(* s3transport.T: an http.RoundTripper that resolves the request's         *)
(* hostname, merges the addresses into an expiring map, picks one address, *)
(* rewrites a clone of the request to target it and delegates to a         *)
(* per-hostname http.Transport kept in a mutex-protected registry.         *)
(*                                                                         *)
(* Goroutines calling RoundTrip are the processes of Procs; one more       *)
(* process is the periodic sweep of the expiring map.  RoundTrip is split  *)
(* at its blocking calls and at its lock acquisitions, which are the only  *)
(* points where another goroutine can observe or change shared state.      *)
(***************************************************************************)
EXTENDS Integers, Sequences, FiniteSets, TLC

VARIABLES
    pc,           \* pc[p]: where goroutine p is inside RoundTrip
    call,         \* call[p]: the locals of p's RoundTrip call
    hostRTsMu,    \* T.hostRTsMu: owner of the registry mutex
    hostRTs,      \* T.hostRTs: hostname -> transport (a Go map)
    transports,   \* heap of *http.Transport: transports[t] is its TLSClientConfig (0 = nil)
    tlsConfigs,   \* heap of *tls.Config: tlsConfigs[c].ServerName
    cacheMu,      \* expiringMap mutex owner
    elems,        \* expiringMap contents: hostname -> [values, lastSeen]
    now,          \* the clock read by the expiring map
    nextSweep,    \* the time of the next tick of the sweep's ticker
    sweepPc,      \* where the sweep goroutine is
    tornDown,     \* the embedder has finished with T
    storedRTs,    \* history: every transport ever written to hostRTs[h]
    returnedRTs,  \* history: every transport hostRoundTripper(h) ever returned
    factoryLog,   \* history: one record per call of t.factory(), in order
    added,        \* history: values passed to AddAndGet(h, _) since h's entry was last evicted
    touched       \* history: time of the last AddAndGet(h, _) since h's entry was last evicted

vars == <<pc, call, hostRTsMu, hostRTs, transports, tlsConfigs, cacheMu, elems,
          now, nextSweep, sweepPc, tornDown, storedRTs, returnedRTs, factoryLog,
          added, touched>>

registryVars == <<hostRTsMu, hostRTs, transports, tlsConfigs, storedRTs, returnedRTs,
                  factoryLog>>
cacheVars == <<cacheMu, elems, added, touched>>
clockVars == <<now, nextSweep, sweepPc>>

-----------------------------------------------------------------------------
(* Bounds and the sets inputs are drawn from *)

MaxTime == 3

Procs == {"g1", "g2"}
Sweeper == "sweeper"
NoOwner == "unlocked"
Never == -1
Nil == "nil"

Hosts == {"a.example", "b.example"}

\* net.IP values, and what net.IP.String() prints for them
IPs == {1, 2, 3}
IPString(ip) == <<"203.0.113.5", "203.0.113.6", "198.51.100.7">>[ip]

\* What the resolver can answer for a hostname on success ([]net.IP, possibly
\* empty or with repeated addresses), and the errors it can fail with.
ResolverAnswers(host) ==
    IF host = "a.example" THEN {<<1>>, <<1, 1, 2>>} ELSE {<<>>, <<3>>}
ResolverErrors == {<<"no such host">>}

\* What the delegated http.Transport.RoundTrip can return.
DelegateOutcomes ==
    { [resp |-> "200 OK", err |-> <<>>],
      [resp |-> Nil, err |-> <<"connection refused">>] }

\* The requests callers send.  URL.Host is "name" or "name:port", kept as the
\* pair <<name, port>>; Host is the request's Host override.  The request's
\* context is the caller's: goroutine p sends with context p.
Requests ==
    { [URL |-> [Scheme |-> "https", Host |-> <<"a.example", "8443">>, Path |-> "/key"],
       Host |-> "alias.example", Method |-> "PUT", Body |-> TRUE],
      [URL |-> [Scheme |-> "http", Host |-> <<"b.example", "">>, Path |-> "/"],
       Host |-> "", Method |-> "GET", Body |-> FALSE] }

Range(s) == { s[i] : i \in 1..Len(s) }
NoDup(s) == \A i, j \in 1..Len(s) : i # j => s[i] # s[j]

-----------------------------------------------------------------------------
(* Pure helpers of RoundTrip *)

\* url.URL.Hostname(): URL.Host with the port stripped
Hostname(url) == url.Host[1]

\* req.Clone(ctx): a deep copy of the request carrying ctx
Clone(req, ctx) == [req EXCEPT !.Ctx = ctx]

\* An error is its chain of messages, outermost first; <<>> is the nil error.
\* fmt.Errorf("s3transport: lookup ip: %w", err) puts one message before err's.
NoErr == <<>>
Errorf(err) == <<"s3transport: lookup ip">> \o err
Unwrap(e) == Tail(e)

\* The key RoundTrip hands to t.hostIPs.AddAndGet
OneKeyForAll(host) == "a.example"

CacheKey(host) == host

\* The arguments RoundTrip hands to defaultResolver.LookupIP
LookupIPArgs(req) == <<Hostname(req.URL)>>

NoResult == [resp |-> Nil, err |-> NoErr]
NoReq == [URL |-> [Scheme |-> "", Host |-> <<"", "">>, Path |-> ""],
          Host |-> "", Method |-> "", Body |-> FALSE, Ctx |-> Nil]

\* The locals of one call.  resolvedIPs, mustHave, lookups, delegated and
\* delegateOut are history: resolvedIPs is what LookupIP returned (ips is
\* overwritten by the merge), kept until the selection.  req is the caller's
\* request object; sent is history, the request as it was when RoundTrip was
\* called.
NoCall ==
    [ req |-> NoReq, sent |-> NoReq, host |-> "", body |-> "none",
      lookups |-> 0, lookupArgs |-> <<>>, resolved |-> FALSE,
      ips |-> <<>>, resolvedIPs |-> <<>>, mustHave |-> {},
      selected |-> 0, hostReq |-> NoReq, transport |-> 0, rt |-> 0,
      delegated |-> 0, delegateOut |-> NoResult, result |-> NoResult ]

\* RoundTrip up to the call of LookupIP
RoundTripEnter(p, r) ==
    LET req == [URL |-> r.URL, Host |-> r.Host, Method |-> r.Method,
                Body |-> r.Body, Ctx |-> p]
    IN  [NoCall EXCEPT !.req = req,
                       !.sent = req,
                       !.host = Hostname(req.URL),
                       !.body = IF req.Body THEN "open" ELSE "none",
                       !.lookups = 1,
                       !.lookupArgs = LookupIPArgs(req)]

\* The err != nil branch of RoundTrip
LookupFailedNoClose(c, e) ==
    [c EXCEPT !.result = [resp |-> Nil, err |-> Errorf(e)]]

LookupFailed(c, e) ==
    [c EXCEPT !.body = IF c.req.Body THEN "closed" ELSE c.body,
              !.result = [resp |-> Nil, err |-> Errorf(e)]]

\* hostReq := req.Clone(req.Context()); hostReq.Host = host;
\* hostReq.URL.Host = ips[i].String()
RewriteKeepHost(req, host, ip) ==
    [Clone(req, req.Ctx) EXCEPT !.URL.Host = <<IPString(ip), "">>]

Rewrite(req, host, ip) ==
    [Clone(req, req.Ctx) EXCEPT !.Host = host, !.URL.Host = <<IPString(ip), "">>]

\* return t.hostRoundTripper(host).RoundTrip(hostReq): the delegate's pair as is
\* The caller's request and hostReq after lines 67-70
RewriteInPlace(req, host, ip) ==
    [req |-> Rewrite(req, host, ip), hostReq |-> Rewrite(req, host, ip)]

CloneAndRewrite(req, host, ip) ==
    [req |-> req, hostReq |-> Rewrite(req, host, ip)]

\* rand.Intn(len(ips)): the indices (from 1) the selection can draw
FirstIndexOnly(ips) == IF ips = <<>> THEN {} ELSE {1}

SelectableIndices(ips) == 1..Len(ips)

PassThroughWrapped(out) ==
    IF out.err = NoErr THEN out ELSE [resp |-> Nil, err |-> Errorf(out.err)]

PassThrough(out) == out

-----------------------------------------------------------------------------
(* sync.Mutex *)

NeverBlocks(mu) == TRUE

CanLock(mu) == mu = NoOwner

\* defer t.hostRTsMu.Unlock(): the mutex after the function returns
UnlockForgotten(mu) == mu

Unlock(mu) == NoOwner

-----------------------------------------------------------------------------
(* The expiring map *)

expireAfter == 2
expireLoopEvery == 1

RECURSIVE Union(_, _)
Union(known, new) ==
    IF new = <<>> THEN known
    ELSE Union(IF Head(new) \in Range(known) THEN known ELSE Append(known, Head(new)),
               Tail(new))

\* AddAndGet(key, newIPs) at time t: the new map and the returned slice
AddAndGetOverwrite(m, key, newIPs, t) ==
    LET all == Union(<<>>, newIPs)
    IN  [elems |-> (key :> [values |-> all, lastSeen |-> t]) @@ m, all |-> all]

AddAndGet(m, key, newIPs, t) ==
    LET known == IF key \in DOMAIN m THEN m[key].values ELSE <<>>
        all == Union(known, newIPs)
    IN  [elems |-> (key :> [values |-> all, lastSeen |-> t]) @@ m, all |-> all]

\* An entry is expired at time t when its lastSeen is older than the window
ExpiredForgetWindow(e, t) == e.lastSeen < t

Expired(e, t) == e.lastSeen < t - expireAfter

\* One sweep pass at time t
expireOnce(m, t) ==
    LET keep == { k \in DOMAIN m : ~Expired(m[k], t) }
    IN  [k \in keep |-> m[k]]

-----------------------------------------------------------------------------
(* The registry: hostRoundTripper *)

\* rt, ok := t.hostRTs[host]
NeverRegistered(m, host) == FALSE

Registered(m, host) == host \in DOMAIN m

\* t.factory(): a new transport whose TLSClientConfig is nil or a config of
\* its own (httpTransport.Clone copies the config)
factory(cfgs, withTLS) ==
    IF withTLS
    THEN [cfg |-> Len(cfgs) + 1, cfgs |-> Append(cfgs, [ServerName |-> ""])]
    ELSE [cfg |-> 0, cfgs |-> cfgs]

\* if transport.TLSClientConfig == nil { ... = &tls.Config{} }
\* transport.TLSClientConfig.ServerName = host
FixTLSOnlyWhenPresent(trs, cfgs, t, host) ==
    IF trs[t] = 0
    THEN [trs |-> [trs EXCEPT ![t] = Len(cfgs) + 1],
          cfgs |-> Append(cfgs, [ServerName |-> ""])]
    ELSE [trs |-> trs, cfgs |-> [cfgs EXCEPT ![trs[t]].ServerName = host]]

FixTLS(trs, cfgs, t, host) ==
    LET cfgs1 == IF trs[t] = 0 THEN Append(cfgs, [ServerName |-> ""]) ELSE cfgs
        trs1 == IF trs[t] = 0 THEN [trs EXCEPT ![t] = Len(cfgs1)] ELSE trs
    IN  [trs |-> trs1, cfgs |-> [cfgs1 EXCEPT ![trs1[t]].ServerName = host]]

ServerNameOf(t) == IF transports[t] = 0 THEN Nil ELSE tlsConfigs[transports[t]].ServerName

-----------------------------------------------------------------------------
Init ==
    /\ pc = [p \in Procs |-> "idle"]
    /\ call = [p \in Procs |-> NoCall]
    /\ hostRTsMu = NoOwner
    /\ hostRTs = <<>>
    /\ transports = <<>>
    /\ tlsConfigs = <<>>
    /\ cacheMu = NoOwner
    /\ elems = <<>>
    /\ now = 0
    /\ nextSweep = expireLoopEvery
    /\ sweepPc = "waiting"
    /\ tornDown = FALSE
    /\ storedRTs = [h \in Hosts |-> {}]
    /\ returnedRTs = [h \in Hosts |-> {}]
    /\ factoryLog = <<>>
    /\ added = [h \in Hosts |-> {}]
    /\ touched = [h \in Hosts |-> Never]

-----------------------------------------------------------------------------
(* RoundTrip *)

\* A caller with no call in flight calls RoundTrip(r):
\* host := req.URL.Hostname(); the call of defaultResolver.LookupIP(host) starts
RoundTripBegin(p, r) ==
    /\ pc[p] \in {"idle", "done"}
    /\ ~tornDown
    /\ call' = [call EXCEPT ![p] = RoundTripEnter(p, r)]
    /\ pc' = [pc EXCEPT ![p] = "lookup"]
    /\ UNCHANGED <<registryVars, cacheVars, clockVars, tornDown>>

\* LookupIP returns an error: close the body, return the wrapped error
LookupFailAfterMerge(p, e) ==
    /\ pc[p] = "lookup"
    /\ CanLock(cacheMu)
    /\ elems' = AddAndGet(elems, call[p].host, <<>>, now).elems
    /\ touched' = [touched EXCEPT ![call[p].host] = now]
    /\ call' = [call EXCEPT ![p] = LookupFailed(call[p], e)]
    /\ pc' = [pc EXCEPT ![p] = "done"]
    /\ UNCHANGED <<registryVars, cacheMu, added, clockVars, tornDown>>

LookupFail(p, e) ==
    /\ pc[p] = "lookup"
    /\ call' = [call EXCEPT ![p] = LookupFailed(call[p], e)]
    /\ pc' = [pc EXCEPT ![p] = "done"]
    /\ UNCHANGED <<registryVars, cacheVars, clockVars, tornDown>>

\* LookupIP returns addresses; the call of t.hostIPs.AddAndGet(host, ips) starts
LookupOK(p, ans) ==
    /\ pc[p] = "lookup"
    /\ call' = [call EXCEPT ![p].resolved = TRUE, ![p].ips = ans, ![p].resolvedIPs = ans]
    /\ pc' = [pc EXCEPT ![p] = "addget"]
    /\ UNCHANGED <<registryVars, cacheVars, clockVars, tornDown>>

\* AddAndGet takes the map's lock
AddAndGetLock(p) ==
    /\ pc[p] = "addget"
    /\ CanLock(cacheMu)
    /\ cacheMu' = p
    /\ pc' = [pc EXCEPT ![p] = "addget_locked"]
    /\ UNCHANGED <<call, registryVars, elems, added, touched, clockVars, tornDown>>

\* AddAndGet merges, refreshes lastSeen, unlocks and returns the merged slice
AddAndGetReturn(p) ==
    /\ pc[p] = "addget_locked"
    /\ LET h == CacheKey(call[p].host)
           r == AddAndGet(elems, h, call[p].ips, now)
           sofar == added[h] \cup Range(call[p].ips)
       IN  /\ elems' = r.elems
           /\ added' = [added EXCEPT ![h] = sofar]
           /\ touched' = [touched EXCEPT ![h] = now]
           /\ call' = [call EXCEPT ![p].ips = r.all, ![p].mustHave = sofar]
    /\ cacheMu' = Unlock(cacheMu)
    /\ pc' = [pc EXCEPT ![p] = "select"]
    /\ UNCHANGED <<registryVars, clockVars, tornDown>>

\* hostReq is cloned and rewritten to ips[rand.Intn(len(ips))]
CloneAndSelect(p, i) ==
    /\ pc[p] = "select"
    /\ i \in SelectableIndices(call[p].ips)
    /\ LET after == CloneAndRewrite(call[p].req, call[p].host, call[p].ips[i])
       IN  call' = [call EXCEPT ![p].selected = call[p].ips[i],
                                ![p].resolvedIPs = <<>>,
                                ![p].req = after.req,
                                ![p].hostReq = after.hostReq]
    /\ pc' = [pc EXCEPT ![p] = "hrt"]
    /\ UNCHANGED <<registryVars, cacheVars, clockVars, tornDown>>

\* rand.Intn(0) panics: the call never returns
SelectPanic(p) ==
    /\ pc[p] = "select"
    /\ Len(call[p].ips) = 0
    /\ call' = [call EXCEPT ![p].hostReq = Clone(call[p].req, call[p].req.Ctx),
                            ![p].resolvedIPs = <<>>]
    /\ pc' = [pc EXCEPT ![p] = "panicked"]
    /\ UNCHANGED <<registryVars, cacheVars, clockVars, tornDown>>

\* t.hostRTsMu.Lock()
HostRTLock(p) ==
    /\ pc[p] = "hrt"
    /\ CanLock(hostRTsMu)
    /\ hostRTsMu' = p
    /\ pc' = [pc EXCEPT ![p] = "hrt_locked"]
    /\ UNCHANGED <<call, hostRTs, transports, tlsConfigs, storedRTs, returnedRTs,
                   factoryLog, cacheVars, clockVars, tornDown>>

\* the host is in the map: unlock, return it; the delegated RoundTrip starts
HostRTHit(p) ==
    /\ pc[p] = "hrt_locked"
    /\ Registered(hostRTs, call[p].host)
    /\ LET rt == hostRTs[call[p].host]
       IN  /\ call' = [call EXCEPT ![p].rt = rt, ![p].delegated = @ + 1]
           /\ returnedRTs' = [returnedRTs EXCEPT ![call[p].host] = @ \cup {rt}]
    /\ hostRTsMu' = Unlock(hostRTsMu)
    /\ pc' = [pc EXCEPT ![p] = "delegate"]
    /\ UNCHANGED <<hostRTs, transports, tlsConfigs, storedRTs, factoryLog,
                   cacheVars, clockVars, tornDown>>

\* the host is not in the map: transport := t.factory(), then the nil check
\* and transport.TLSClientConfig.ServerName = host
HostRTCreate(p, withTLS) ==
    /\ pc[p] = "hrt_locked"
    /\ ~Registered(hostRTs, call[p].host)
    /\ factoryLog' = Append(factoryLog, [host |-> call[p].host, resolved |-> call[p].resolved])
    /\ LET made == factory(tlsConfigs, withTLS)
           t == Len(transports) + 1
           fixed == FixTLS(Append(transports, made.cfg), made.cfgs, t, call[p].host)
       IN  /\ transports' = fixed.trs
           /\ tlsConfigs' = fixed.cfgs
           /\ call' = [call EXCEPT ![p].transport = t]
    /\ pc' = [pc EXCEPT ![p] = "hrt_store"]
    /\ UNCHANGED <<hostRTsMu, hostRTs, storedRTs, returnedRTs, cacheVars, clockVars, tornDown>>

\* t.hostRTs[host] = transport; unlock, return it; the delegated RoundTrip starts
HostRTStore(p) ==
    /\ pc[p] = "hrt_store"
    /\ LET h == call[p].host
           rt == call[p].transport
       IN  /\ hostRTs' = (h :> rt) @@ hostRTs
           /\ storedRTs' = [storedRTs EXCEPT ![h] = @ \cup {rt}]
           /\ returnedRTs' = [returnedRTs EXCEPT ![h] = @ \cup {rt}]
           /\ call' = [call EXCEPT ![p].rt = rt, ![p].delegated = @ + 1]
    /\ hostRTsMu' = Unlock(hostRTsMu)
    /\ pc' = [pc EXCEPT ![p] = "delegate"]
    /\ UNCHANGED <<transports, tlsConfigs, factoryLog, cacheVars, clockVars, tornDown>>

\* the delegated transport's RoundTrip returns; RoundTrip returns its pair
DelegateReturn(p, out) ==
    /\ pc[p] = "delegate"
    /\ call' = [call EXCEPT ![p].delegateOut = out, ![p].result = PassThrough(out)]
    /\ pc' = [pc EXCEPT ![p] = "done"]
    /\ UNCHANGED <<registryVars, cacheVars, clockVars, tornDown>>

-----------------------------------------------------------------------------
(* The sweep goroutine started by New, and the clock *)

\* The ticker fires: the sweep takes the map's lock
SweepLock ==
    /\ sweepPc = "waiting"
    /\ now = nextSweep
    /\ CanLock(cacheMu)
    /\ cacheMu' = Sweeper
    /\ sweepPc' = "locked"
    /\ UNCHANGED <<pc, call, registryVars, elems, added, touched, now, nextSweep, tornDown>>

\* One pass: expired entries are deleted, the lock is released
SweepPass ==
    /\ sweepPc = "locked"
    /\ elems' = expireOnce(elems, now)
    /\ added' = [h \in Hosts |-> IF h \in DOMAIN elems' THEN added[h] ELSE {}]
    /\ touched' = [h \in Hosts |-> IF h \in DOMAIN elems' THEN touched[h] ELSE Never]
    /\ cacheMu' = Unlock(cacheMu)
    /\ sweepPc' = "waiting"
    /\ nextSweep' = nextSweep + expireLoopEvery
    /\ UNCHANGED <<pc, call, registryVars, now, tornDown>>

\* Time passes, up to the next tick of the sweep's ticker: a pass that is due
\* runs before the clock moves on (the sweep runs on a fixed interval)
Tick ==
    /\ now < MaxTime
    /\ now < nextSweep
    /\ now' = now + 1
    /\ UNCHANGED <<pc, call, registryVars, cacheVars, nextSweep, sweepPc, tornDown>>

\* The embedder is done with its T and sends no more requests.  T has no
\* method and New returns no handle through which the sweep could be told.
Teardown ==
    /\ ~tornDown
    /\ \A p \in Procs : pc[p] \in {"idle", "done", "panicked"}
    /\ tornDown' = TRUE
    /\ UNCHANGED <<pc, call, registryVars, cacheVars, clockVars>>

Next ==
    \/ \E p \in Procs, r \in Requests : RoundTripBegin(p, r)
    \/ \E p \in Procs, e \in ResolverErrors : LookupFail(p, e)
    \/ \E p \in Procs : \E ans \in ResolverAnswers(call[p].host) : LookupOK(p, ans)
    \/ \E p \in Procs : AddAndGetLock(p)
    \/ \E p \in Procs : AddAndGetReturn(p)
    \/ \E p \in Procs, i \in 1..Cardinality(IPs) : CloneAndSelect(p, i)
    \/ \E p \in Procs : SelectPanic(p)
    \/ \E p \in Procs : HostRTLock(p)
    \/ \E p \in Procs : HostRTHit(p)
    \/ \E p \in Procs, withTLS \in BOOLEAN : HostRTCreate(p, withTLS)
    \/ \E p \in Procs : HostRTStore(p)
    \/ \E p \in Procs, out \in DelegateOutcomes : DelegateReturn(p, out)
    \/ SweepLock
    \/ SweepPass
    \/ Tick
    \/ Teardown

Spec == Init /\ [][Next]_vars

-----------------------------------------------------------------------------
(* Properties *)

\* p's call has returned from AddAndGet
Merged(p) == call[p].resolved /\ pc[p] \notin {"lookup", "addget", "addget_locked"}

\* p's call has returned from hostRoundTripper
Looked(p) == call[p].resolved /\ pc[p] \in {"delegate", "done"}

\* C1: for every hostname, every lookup returned the transport stored under
\* it, at most one transport was ever stored under it, and the stored mapping
\* is never replaced or removed.
C1_OneTransportPerHost ==
    \A h \in Hosts :
        /\ Cardinality(storedRTs[h]) <= 1
        /\ returnedRTs[h] \subseteq storedRTs[h]
        /\ storedRTs[h] # {} => h \in DOMAIN hostRTs /\ storedRTs[h] = {hostRTs[h]}
        /\ \A p \in Procs : Looked(p) /\ call[p].host = h => call[p].rt \in storedRTs[h]

\* Two goroutines looked up the same hostname while both calls were in flight
\* and hold the same transport.
C1_Witness ==
    \E p, q \in Procs :
        /\ p # q
        /\ pc[p] = "delegate" /\ pc[q] = "delegate"
        /\ call[p].host = call[q].host
        /\ call[p].rt = call[q].rt /\ call[p].rt # 0

\* C2: the transport stored under hostname h, and every transport a lookup
\* for h returned, verifies certificates against h.
C2_ServerNameIsHost ==
    /\ \A h \in DOMAIN hostRTs : ServerNameOf(hostRTs[h]) = h
    /\ \A p \in Procs : Looked(p) => ServerNameOf(call[p].rt) = call[p].host

\* Both hostnames are registered, the second after the first.
C2_Witness ==
    /\ DOMAIN hostRTs = Hosts
    /\ hostRTs["a.example"] # hostRTs["b.example"]

\* C3: a call whose resolution failed returned no response and the wrapped
\* resolver error, closed the body if there was one, asked the resolver once
\* and never invoked a delegated transport.
C3_ResolutionFailure ==
    \A p \in Procs :
        pc[p] = "done" /\ ~call[p].resolved =>
            /\ call[p].result.resp = Nil
            /\ call[p].result.err # NoErr
            /\ Unwrap(call[p].result.err) \in ResolverErrors
            /\ call[p].req.Body => call[p].body = "closed"
            /\ call[p].lookups = 1
            /\ call[p].delegated = 0

\* A request with a body failed to resolve.
C3_Witness ==
    \E p \in Procs : pc[p] = "done" /\ ~call[p].resolved /\ call[p].req.Body

\* C4: the slice AddAndGet returned holds every value passed to it and to the
\* earlier AddAndGet calls on the key since the key's entry was last evicted,
\* without duplicates, and the entry keeps every such value.
C4_MergeKeepsEverything ==
    /\ \A p \in Procs :
           Merged(p) => call[p].mustHave \subseteq Range(call[p].ips) /\ NoDup(call[p].ips)
    /\ \A h \in DOMAIN elems :
           added[h] \subseteq Range(elems[h].values) /\ NoDup(elems[h].values)

\* Two calls on one key interleaved and the later one got more than the earlier.
C4_Witness ==
    \E p, q \in Procs :
        /\ p # q
        /\ pc[p] = "select" /\ pc[q] = "select"
        /\ call[p].host = call[q].host
        /\ Range(call[p].ips) # Range(call[q].ips)
        /\ Range(call[p].ips) \subseteq Range(call[q].ips)

C6_NoFatalPath == \A p \in Procs : pc[p] # "panicked"

\* C7: after a successful resolution RoundTrip returns exactly the pair its
\* delegated transport returned; otherwise it returns no response and the
\* lookup error it made itself.
C7_PassThrough ==
    \A p \in Procs :
        pc[p] = "done" =>
            IF call[p].resolved
            THEN call[p].delegated = 1 /\ call[p].result = call[p].delegateOut
            ELSE /\ call[p].result.resp = Nil
                 /\ call[p].result.err # NoErr
                 /\ Head(call[p].result.err) = "s3transport: lookup ip"

\* The delegated transport failed and the call returned.
C7_Witness ==
    \E p \in Procs : pc[p] = "done" /\ call[p].resolved /\ call[p].delegateOut.err # NoErr

\* C8: the resolver call and the delegated call both receive the request's
\* context.
C8_ContextReachesBothSteps ==
    \A p \in Procs :
        /\ pc[p] = "lookup" => call[p].req.Ctx \in Range(call[p].lookupArgs)
        /\ pc[p] = "delegate" => call[p].hostReq.Ctx = call[p].req.Ctx

\* C9: once the embedder has torn T down, no sweep pass runs.
C9_NoSweepAfterTeardown ==
    [][tornDown => ~(sweepPc = "locked" /\ sweepPc' = "waiting")]_vars

\* C10: the request handed to the delegated transport targets the selected
\* address, carries the hostname of the original URL as Host, and goes to the
\* transport registered under that hostname.
C10_RewrittenRequest ==
    \A p \in Procs :
        pc[p] = "delegate" =>
            /\ call[p].selected \in Range(call[p].ips)
            /\ Hostname(call[p].hostReq.URL) = IPString(call[p].selected)
            /\ call[p].hostReq.Host = Hostname(call[p].req.URL)
            /\ call[p].host \in DOMAIN hostRTs
            /\ call[p].rt = hostRTs[call[p].host]

\* A request with a port and a Host override was rewritten and delegated.
C10_Witness ==
    \E p \in Procs :
        /\ pc[p] = "delegate"
        /\ call[p].req.URL.Host[2] # ""
        /\ call[p].req.Host \notin {"", call[p].host}

\* C11: the merged slice holds everything the resolver just returned, every
\* member of it can be selected, and the selected address is a member of it.
C11_SelectionFromMergedSet ==
    \A p \in Procs :
        /\ pc[p] = "select" =>
               /\ Range(call[p].resolvedIPs) \subseteq Range(call[p].ips)
               /\ \A i \in 1..Len(call[p].ips) : ENABLED CloneAndSelect(p, i)
        /\ Merged(p) /\ pc[p] \notin {"select", "panicked"} =>
               call[p].selected \in Range(call[p].ips)

\* A call is about to select from a merged slice that holds an address the
\* resolver did not return this time, and another call selected that address.
C11_Witness ==
    \E p, q \in Procs :
        /\ pc[p] = "select"
        /\ Range(call[p].ips) \ Range(call[p].resolvedIPs) # {}
        /\ pc[q] = "delegate"
        /\ call[q].selected \in Range(call[p].ips) \ Range(call[p].resolvedIPs)

\* C12: every entry of the map has a non-empty value set; an entry goes away
\* only in a sweep pass that finds its lastSeen older than the expiry window;
\* no step takes a value out of an entry that stays.
C12_EntriesNonEmptyOnlySwept ==
    /\ [](\A h \in DOMAIN elems : elems[h].values # <<>>)
    /\ [][\A h \in DOMAIN elems :
            IF h \in DOMAIN elems'
            THEN Range(elems[h].values) \subseteq Range(elems'[h].values)
            ELSE /\ sweepPc = "locked" /\ sweepPc' = "waiting"
                 /\ elems[h].lastSeen < now - expireAfter]_vars

\* C13: the factory was called at most once per hostname and only by calls
\* whose resolution had succeeded; every transport came from such a call; a
\* lookup that finds its hostname registered cannot call the factory.
C13_FactoryOncePerHost ==
    /\ \A i, j \in 1..Len(factoryLog) : i # j => factoryLog[i].host # factoryLog[j].host
    /\ \A i \in 1..Len(factoryLog) : factoryLog[i].resolved
    /\ Len(transports) = Len(factoryLog)
    /\ \A h \in DOMAIN hostRTs : \E i \in 1..Len(factoryLog) : factoryLog[i].host = h
    /\ \A p \in Procs :
           pc[p] = "hrt_locked" /\ call[p].host \in DOMAIN hostRTs =>
               ~ENABLED (\E withTLS \in BOOLEAN : HostRTCreate(p, withTLS))

\* One call created the transport of a hostname and another call, inside the
\* registry's lock, finds that hostname registered.
C13_Witness ==
    \E p, q \in Procs :
        /\ pc[p] = "delegate" /\ call[p].transport # 0
        /\ pc[q] = "hrt_locked" /\ call[q].host = call[p].host
        /\ call[q].host \in DOMAIN hostRTs

\* p's call is inside LookupIP or inside the delegated RoundTrip
Blocked(p) == pc[p] \in {"lookup", "delegate"}

\* C14: a call inside LookupIP or inside the delegated RoundTrip holds neither
\* lock, and while one call is there another call's registry lookup can take
\* its lock, as can its cache merge unless a sweep pass holds that lock.
C14_NoLockWhileBlocked ==
    \A p \in Procs :
        Blocked(p) =>
            /\ cacheMu # p /\ hostRTsMu # p
            /\ \A q \in Procs \ {p} :
                   /\ pc[q] = "hrt" => ENABLED HostRTLock(q)
                   /\ pc[q] = "addget" /\ sweepPc # "locked" => ENABLED AddAndGetLock(q)

\* One call is inside the delegated RoundTrip, having gone through both
\* locks, while the other is about to take the registry's lock.
C14_Witness ==
    \E p, q \in Procs :
        /\ pc[p] = "delegate" /\ call[p].transport # 0
        /\ pc[q] = "hrt"

\* C15: the steps of a dispatch up to and including a failed resolution
\* leave the registry, the transports, the factory's call count and the map
\* (entries, values, lastSeen) as they were.
C15_FailedDispatchChangesNothing ==
    [][\A p \in Procs :
          ( (pc[p] # "lookup" /\ pc'[p] = "lookup")
            \/ (pc[p] = "lookup" /\ pc'[p] = "done" /\ ~call'[p].resolved) )
          => UNCHANGED <<hostRTs, transports, tlsConfigs, factoryLog, elems>>]_vars

\* A dispatch has failed to resolve a hostname whose entry, made earlier, is
\* still in the map with its earlier lastSeen, and no transport exists for it.
C15_Witness ==
    \E p \in Procs :
        /\ pc[p] = "done" /\ ~call[p].resolved
        /\ call[p].host \in DOMAIN elems
        /\ elems[call[p].host].lastSeen < now
        /\ call[p].host \notin DOMAIN hostRTs

\* The steps of p's own call once it has begun
CallStep(p) ==
    \/ \E e \in ResolverErrors : LookupFail(p, e)
    \/ \E ans \in ResolverAnswers(call[p].host) : LookupOK(p, ans)
    \/ AddAndGetLock(p)
    \/ AddAndGetReturn(p)
    \/ \E i \in 1..Cardinality(IPs) : CloneAndSelect(p, i)
    \/ HostRTLock(p)
    \/ HostRTHit(p)
    \/ \E withTLS \in BOOLEAN : HostRTCreate(p, withTLS)
    \/ HostRTStore(p)
    \/ \E out \in DelegateOutcomes : DelegateReturn(p, out)

\* p's call has begun and has not returned
InFlight(p) == pc[p] \notin {"idle", "done"}

\* C16: no call holds both locks, and nothing is ever stuck: a call that has
\* not returned can take its next step towards returning, or waits for a lock
\* whose holder can; a sweep pass holding the lock can complete.
C16_NoCallStuck ==
    /\ \A p \in Procs : ~(cacheMu = p /\ hostRTsMu = p)
    /\ \A p \in Procs :
           InFlight(p) =>
               \/ ENABLED CallStep(p)
               \/ pc[p] = "addget" /\ cacheMu \notin {NoOwner, p}
               \/ pc[p] = "hrt" /\ hostRTsMu \notin {NoOwner, p}
    /\ sweepPc = "locked" => ENABLED SweepPass

\* The addresses the resolver can return for a hostname
ResolvableIPs(host) == UNION { Range(ans) : ans \in ResolverAnswers(host) }

\* C17: a request for hostname h is sent to an address the resolver returned
\* for h, passed to AddAndGet(h, _) by this call or by an earlier one since
\* h's entry was last evicted, and it is delegated to the transport stored
\* under h and under no other hostname.
C17_PerHostIsolation ==
    \A p \in Procs :
        pc[p] = "delegate" =>
            /\ call[p].selected \in ResolvableIPs(call[p].host)
            /\ call[p].selected \in call[p].mustHave
            /\ Hostname(call[p].hostReq.URL) = IPString(call[p].selected)
            /\ call[p].rt \in storedRTs[call[p].host]
            /\ \A h \in Hosts \ {call[p].host} : call[p].rt \notin storedRTs[h]

\* Requests for the two hostnames are inside their delegated transports at
\* the same time.
C17_Witness ==
    \E p, q \in Procs :
        /\ pc[p] = "delegate" /\ pc[q] = "delegate"
        /\ call[p].host # call[q].host

\* C18: the request handed to the delegated transport has the scheme, port,
\* path, method, body and context of the original; only the host part of its
\* URL and its Host differ.
C18_OnlyHostRewritten ==
    \A p \in Procs :
        pc[p] = "delegate" =>
            /\ call[p].hostReq.URL.Scheme = call[p].sent.URL.Scheme
            /\ call[p].hostReq.URL.Host[2] = call[p].sent.URL.Host[2]
            /\ call[p].hostReq.URL.Path = call[p].sent.URL.Path
            /\ call[p].hostReq.Method = call[p].sent.Method
            /\ call[p].hostReq.Body = call[p].sent.Body
            /\ call[p].hostReq.Ctx = call[p].sent.Ctx

\* C19: the caller's request has the URL and the Host it was sent with, at
\* every point of the call and after it.
C19_CallerRequestUntouched ==
    \A p \in Procs :
        /\ call[p].req.URL = call[p].sent.URL
        /\ call[p].req.Host = call[p].sent.Host

\* Two calls whose requests were rewritten have returned, one with the
\* delegate's response and one with the delegate's error.
C19_Witness ==
    \E p, q \in Procs :
        /\ pc[p] = "done" /\ call[p].resolved /\ call[p].delegateOut.err = NoErr
        /\ pc[q] = "done" /\ call[q].resolved /\ call[q].delegateOut.err # NoErr
        /\ call[p].hostReq.URL # call[p].req.URL
        /\ call[q].hostReq.Host # call[q].req.Host

====
